---- MODULE Spec2Model ----
(***************************************************************************)
(* httpeeve: an HTTP client decorator that retries a request through      *)
(* cenkalti/backoff.  The model follows NewBackoffClient's closure (one    *)
(* logical call = one execution of Do), the loop of backoff.Retry that     *)
(* drives it, the two classifiers, and the attempt accessor.               *)
(*                                                                         *)
(* Pointers are sequences of length <= 1: <<>> is nil, <<v>> points to v.  *)
(* Error texts are sequences of one-character strings so that              *)
(* strings.Contains is computed, not assumed.                              *)
(***************************************************************************)
EXTENDS Integers, Sequences, FiniteSets, TLC

(* ------------------------------ bounds --------------------------------- *)

\* Largest number of delays a backoff policy of the model grants per reset.
MaxRetries == 2

\* Number of logical calls that may run through one wrapped client.
NumCalls == 2

Calls == 1..NumCalls

(* ------------------------------ values --------------------------------- *)

Nil == <<>>

Ptr(v) == <<v>>

Deref(p) == p[1]

\* The context value stored under contextKeyAttempts{}; Absent: key not set.
Absent == -1

\* The caller's request: its context carries no attempt count.
CallerRequest == [ctx |-> Absent]

StatusCodes == {199, 200, 299, 300, 404, 499, 500, 599, 600}

\* A response as the transport hands it out: resp.Request is the request sent.
NewResponse(code) == [StatusCode |-> code, Request |-> CallerRequest]

EOF == <<"E", "O", "F">>

\* An error value: its Error() text, whether its dynamic type implements
\* net.Error, and what Timeout() and Temporary() answer.
NewError(text, isNet, timeout, temporary) ==
    [text |-> text, net |-> isNet, timeout |-> timeout, temporary |-> temporary]

\* errors.New(msg) / fmt.Errorf: a plain error, not a net.Error.
PlainError(text) == NewError(text, FALSE, FALSE, FALSE)

Digit(d) == <<"0", "1", "2", "3", "4", "5", "6", "7", "8", "9">>[d + 1]

\* The decimal digits %d prints for n >= 0.
RECURSIVE Itoa(_)
Itoa(n) == IF n < 10 THEN <<Digit(n)>> ELSE Itoa(n \div 10) \o <<Digit(n % 10)>>

\* fmt.Sprintf("bad status code %d", code)
BadStatusText(code) == <<"bad status code ">> \o Itoa(code)

Bad == <<"b", "a", "d">>

\* Errors http.Client.Do returns: *url.Error is a net.Error whose flags are
\* those of the wrapped error; a transport may also hand back a bare error.
TransportErrors ==
    { NewError(EOF, FALSE, FALSE, FALSE),
      NewError(<<"x", "E", "O", "F", "x">>, TRUE, FALSE, FALSE),
      NewError(<<"t", "o">>, TRUE, TRUE, FALSE),
      NewError(<<"t", "m", "p">>, TRUE, FALSE, TRUE),
      NewError(<<"E", "O", "x", "F">>, TRUE, FALSE, FALSE),
      NewError(<<"e", "o", "f">>, FALSE, FALSE, FALSE),
      NewError(<<"F", "O", "E">>, FALSE, FALSE, FALSE) }

\* The error a failing CheckRedirect produces: Do then returns it together
\* with the redirect response.
RedirectError == NewError(<<"r", "e", "d">>, TRUE, FALSE, FALSE)

\* What one httpClient.Do(req) can return: (resp, nil), (nil, err), and
\* (resp, err) when CheckRedirect fails.
AllOutcomes ==
    { [resp |-> Ptr(NewResponse(s)), err |-> Nil] : s \in StatusCodes }
    \cup { [resp |-> Nil, err |-> Ptr(e)] : e \in TransportErrors }
    \cup { [resp |-> Ptr(NewResponse(300)), err |-> Ptr(RedirectError)] }

\* The outcomes drawn when several calls run concurrently.
ConcOutcomes ==
    { [resp |-> Ptr(NewResponse(s)), err |-> Nil] : s \in {200, 404, 500} }
    \cup { [resp |-> Nil, err |-> Ptr(NewError(EOF, FALSE, FALSE, FALSE))] }

(* ---------------------------- classifiers ------------------------------ *)

\* strings.Contains(s, sub)
Contains(s, sub) ==
    \E i \in 0..(Len(s) - Len(sub)) :
        \A j \in 1..Len(sub) : s[i + j] = sub[j]

\* backoff.Permanent(err) wraps err in *PermanentError; a retriable error is
\* returned as it is.
Permanent(e) == [permanent |-> TRUE, err |-> e]

Retriable(e) == [permanent |-> FALSE, err |-> e]

\* categorizeRequestError without the Temporary() case.
categorizeIgnoresTemporary(reqErr) ==
    IF Contains(reqErr.text, EOF)
    THEN Retriable(reqErr)
    ELSE IF reqErr.net /\ reqErr.timeout
         THEN Retriable(reqErr)
         ELSE Permanent(reqErr)

categorizeRequestError(reqErr) ==
    IF Contains(reqErr.text, EOF)
    THEN Retriable(reqErr)
    ELSE IF reqErr.net
         THEN IF reqErr.timeout \/ reqErr.temporary
              THEN Retriable(reqErr)
              ELSE Permanent(reqErr)
         ELSE Permanent(reqErr)

OK == [shouldRetry |-> FALSE, err |-> Nil]

RetriableError(msg) == [shouldRetry |-> TRUE, err |-> Ptr(PlainError(msg))]

PermanentError(msg) == [shouldRetry |-> FALSE, err |-> Ptr(PlainError(msg))]

\* The default Conditioner with the upper limit of the 5xx range included.
DefaultConditionerUpTo600(resp) ==
    IF resp.StatusCode >= 500 /\ resp.StatusCode <= 600
    THEN RetriableError(BadStatusText(resp.StatusCode))
    ELSE IF resp.StatusCode >= 200 /\ resp.StatusCode < 300
         THEN OK
         ELSE PermanentError(BadStatusText(resp.StatusCode))

\* The Conditioner NewDefaultBackoffClient5XX installs.
DefaultConditioner(resp) ==
    IF resp.StatusCode >= 500 /\ resp.StatusCode < 600
    THEN RetriableError(BadStatusText(resp.StatusCode))
    ELSE IF resp.StatusCode >= 200 /\ resp.StatusCode < 300
         THEN OK
         ELSE PermanentError(BadStatusText(resp.StatusCode))

\* The Conditioner of TestRequestRetries and TestRequestNoRetryOn200.
Retry500Conditioner(resp) ==
    IF resp.StatusCode = 500 THEN RetriableError(Bad) ELSE OK

\* The Conditioner of TestRequestReturnsErrImmediately.
Permanent404Conditioner(resp) ==
    IF resp.StatusCode = 404 THEN PermanentError(Bad) ELSE OK

\* A caller-supplied Conditioner that also uses the fourth shape the type
\* allows, (true, nil).
LooseConditioner(resp) ==
    IF resp.StatusCode >= 500 THEN RetriableError(Bad)
    ELSE IF resp.StatusCode >= 400 THEN PermanentError(Bad)
    ELSE IF resp.StatusCode >= 300 THEN [shouldRetry |-> TRUE, err |-> Nil]
    ELSE OK

Conditioners == {"default5XX", "retry500", "permanent404", "loose"}

\* conditioner(resp) for the Conditioner the client was built with.
Conditioner(name, resp) ==
    CASE name = "default5XX" -> DefaultConditioner(resp)
      [] name = "retry500" -> Retry500Conditioner(resp)
      [] name = "permanent404" -> Permanent404Conditioner(resp)
      [] name = "loose" -> LooseConditioner(resp)

(* --------------------------- attempt tracking -------------------------- *)

\* What a function that may dereference nil produces: a value, or a panic.
Value(v) == [panic |-> FALSE, value |-> v]

Panic == [panic |-> TRUE, value |-> 0]

\* req.WithContext(context.WithValue(req.Context(), contextKeyAttempts{}, n)):
\* a shallow copy of the request with the value set.
WithAttempts(req, n) == [req EXCEPT !.ctx = n]

\* addAttemptsToRequest with the result of WithContext dropped instead of
\* assigned to resp.Request.
addAttemptsDropped(resp, n) ==
    IF resp = Nil
    THEN Panic
    ELSE Value(Deref(resp))

\* addAttemptsToRequest(resp, attempts): dereferences resp, so a nil resp
\* panics; otherwise resp.Request is replaced by the annotated copy. The
\* value is the response resp points to afterwards.
addAttemptsToRequest(resp, n) ==
    IF resp = Nil
    THEN Panic
    ELSE Value([Deref(resp) EXCEPT !.Request = WithAttempts(@, n)])

\* Attempts(resp): dereferences resp; the failed type assertion of an
\* absent value yields the zero int.
Attempts(resp) ==
    IF resp = Nil
    THEN Panic
    ELSE IF Deref(resp).Request.ctx = Absent
         THEN Value(0)
         ELSE Value(Deref(resp).Request.ctx)

(* ------------------------------ scheduler ------------------------------ *)

\* The BackOff handed to NewBackoffClient: a policy that grants maxTries
\* delays after a Reset and then answers Stop.
NewBackOff(maxTries, numTries) == [maxTries |-> maxTries, numTries |-> numTries]

Reset(b) == [b EXCEPT !.numTries = 0]

\* NextBackOff(): <<stop, b'>>
NextBackOff(b) ==
    IF b.maxTries <= b.numTries
    THEN [stop |-> TRUE, b |-> b]
    ELSE [stop |-> FALSE, b |-> [b EXCEPT !.numTries = @ + 1]]

(* -------------------------------- state -------------------------------- *)

VARIABLES
    conditioner,  \* the Conditioner the client was constructed with
    backoffer,    \* the BackOff the client was constructed with
    active,       \* the logical calls made through the client
    pc,           \* per call: where its execution of Do stands
    attempts,     \* per call: the closure's local `attempts`
    resp,         \* per call: the closure's local `resp`
    opErr,        \* per call: what the operation returned to backoff.Retry
    err,          \* per call: what backoff.Retry returned
    ret,          \* per call: what Do returned to the caller
    hist,         \* per call: the transport outcomes so far (history)
    invocations,  \* per call: transport invocations started (history)
    consulted,    \* per call: NextBackOff calls made (history)
    granted,      \* per call: delays granted (history)
    condCalls,    \* per call: Conditioner invocations (history)
    errCalls,     \* per call: categorizeRequestError invocations (history)
    request,      \* per call: the request value the caller handed to Do
    sent,         \* per call: the request values passed to httpClient.Do (history)
    accessor      \* the last Attempts(resp) call a caller made

vars == <<conditioner, backoffer, active, pc, attempts, resp, opErr, err, ret,
          hist, invocations, consulted, granted, condCalls, errCalls, request,
          sent, accessor>>

client == <<conditioner, active, request>>

Outcomes == IF Cardinality(active) = 1 THEN AllOutcomes ELSE ConcOutcomes

NoReturn == <<>>

InitCalls ==
    /\ pc = [c \in Calls |-> "idle"]
    /\ attempts = [c \in Calls |-> 0]
    /\ resp = [c \in Calls |-> Nil]
    /\ opErr = [c \in Calls |-> Nil]
    /\ err = [c \in Calls |-> Nil]
    /\ ret = [c \in Calls |-> NoReturn]
    /\ hist = [c \in Calls |-> <<>>]
    /\ invocations = [c \in Calls |-> 0]
    /\ consulted = [c \in Calls |-> 0]
    /\ granted = [c \in Calls |-> 0]
    /\ condCalls = [c \in Calls |-> 0]
    /\ errCalls = [c \in Calls |-> 0]
    /\ request = [c \in Calls |-> CallerRequest]
    /\ sent = [c \in Calls |-> <<>>]
    /\ accessor = <<>>

\* NewBackoffClient(httpClient, backoffer, conditioner): the BackOff may
\* have been used before, as the package-level one of the tests is.
InitClient ==
    /\ conditioner \in Conditioners
    /\ \E m \in 0..MaxRetries : \E n \in 0..m : backoffer = NewBackOff(m, n)

Init ==
    /\ InitClient
    /\ active = {1}
    /\ InitCalls

InitConc ==
    /\ conditioner \in {"default5XX", "retry500"}
    /\ \E m \in 0..MaxRetries : backoffer = NewBackOff(m, 0)
    /\ active = Calls
    /\ InitCalls

(* ------------------------------- actions ------------------------------- *)

\* The operation deciding on shouldRetry before it looks at the error: a
\* Conditioner answer of (true, nil) becomes a retriable error.
operationRetryFlagFirst(cond, o) ==
    IF o.err # Nil
    THEN Ptr(categorizeRequestError(Deref(o.err)))
    ELSE LET c == Conditioner(cond, Deref(o.resp))
         IN  IF c.shouldRetry
             THEN Ptr(Retriable(IF c.err = Nil THEN PlainError(<<"retry">>) ELSE Deref(c.err)))
             ELSE IF c.err = Nil
                  THEN Nil
                  ELSE Ptr(Permanent(Deref(c.err)))

\* The operation without the backoff.Permanent wrapping of a Conditioner
\* error that is not to be retried.
operationNeverPermanent(cond, o) ==
    IF o.err # Nil
    THEN Ptr(categorizeRequestError(Deref(o.err)))
    ELSE LET c == Conditioner(cond, Deref(o.resp))
         IN  IF c.err = Nil
             THEN Nil
             ELSE Ptr(Retriable(Deref(c.err)))

\* The body of the operation closure after httpClient.Do returned outcome o:
\* the value it returns to backoff.Retry.
operation(cond, o) ==
    IF o.err # Nil
    THEN Ptr(categorizeRequestError(Deref(o.err)))
    ELSE LET c == Conditioner(cond, Deref(o.resp))
         IN  IF c.err = Nil
             THEN Nil
             ELSE IF c.shouldRetry
                  THEN Ptr(Retriable(Deref(c.err)))
                  ELSE Ptr(Permanent(Deref(c.err)))

\* The operation running the Conditioner on every non-nil response, also
\* on one that came with an error.
operationCallsOnAnyResponse(o) ==
    [categorize |-> IF o.err # Nil THEN 1 ELSE 0,
     conditioner |-> IF o.resp # Nil THEN 1 ELSE 0]

\* Which classifiers the operation closure runs for outcome o: the error
\* branch returns before conditioner(resp) is reached.
operationCalls(o) ==
    IF o.err # Nil
    THEN [categorize |-> 1, conditioner |-> 0]
    ELSE [categorize |-> 0, conditioner |-> 1]

\* client.Do(req) is entered: the locals are fresh and backoff.Retry resets
\* the BackOff before its loop.
Do(c) ==
    /\ c \in active
    /\ pc[c] = "idle"
    /\ backoffer' = Reset(backoffer)
    /\ pc' = [pc EXCEPT ![c] = "operation"]
    /\ UNCHANGED <<client, sent, attempts, resp, opErr, err, ret, hist, invocations,
                   consulted, granted, condCalls, errCalls, accessor>>

\* The operation attaching the running attempt count to the request before
\* each invocation, so that the transport sees a changed request.
InvokeTagsRequest(c) ==
    /\ pc[c] = "operation"
    /\ attempts' = [attempts EXCEPT ![c] = @ + 1]
    /\ invocations' = [invocations EXCEPT ![c] = @ + 1]
    /\ request' = [request EXCEPT ![c] = WithAttempts(@, attempts[c] + 1)]
    /\ sent' = [sent EXCEPT ![c] = Append(@, request'[c])]
    /\ pc' = [pc EXCEPT ![c] = "inflight"]
    /\ UNCHANGED <<conditioner, active, backoffer, resp, opErr, err, ret, hist,
                   consulted, granted, condCalls, errCalls, accessor>>

\* The operation counting retries instead of attempts: no increment for
\* the first invocation.
InvokeCountsRetries(c) ==
    /\ pc[c] = "operation"
    /\ attempts' = [attempts EXCEPT ![c] = IF invocations[c] = 0 THEN @ ELSE @ + 1]
    /\ invocations' = [invocations EXCEPT ![c] = @ + 1]
    /\ sent' = [sent EXCEPT ![c] = Append(@, request[c])]
    /\ pc' = [pc EXCEPT ![c] = "inflight"]
    /\ UNCHANGED <<client, backoffer, resp, opErr, err, ret, hist, consulted,
                   granted, condCalls, errCalls, accessor>>

\* The operation starts: attempts++ and httpClient.Do(req) is invoked.
Invoke(c) ==
    /\ pc[c] = "operation"
    /\ attempts' = [attempts EXCEPT ![c] = @ + 1]
    /\ invocations' = [invocations EXCEPT ![c] = @ + 1]
    /\ sent' = [sent EXCEPT ![c] = Append(@, request[c])]
    /\ pc' = [pc EXCEPT ![c] = "inflight"]
    /\ UNCHANGED <<client, backoffer, resp, opErr, err, ret, hist, consulted,
                   granted, condCalls, errCalls, accessor>>

\* The operation assigning resp only when the transport returned one, so
\* that a failed attempt leaves the response of an earlier attempt in place.
TransportReturnsKeepsResp(c) ==
    /\ pc[c] = "inflight"
    /\ \E o \in Outcomes :
        /\ resp' = [resp EXCEPT ![c] = IF o.resp = Nil THEN @ ELSE o.resp]
        /\ opErr' = [opErr EXCEPT ![c] = operation(conditioner, o)]
        /\ hist' = [hist EXCEPT ![c] = Append(@, o)]
        /\ errCalls' = [errCalls EXCEPT ![c] = @ + operationCalls(o).categorize]
        /\ condCalls' = [condCalls EXCEPT ![c] = @ + operationCalls(o).conditioner]
    /\ pc' = [pc EXCEPT ![c] = "retry"]
    /\ UNCHANGED <<client, sent, backoffer, attempts, err, ret, invocations,
                   consulted, granted, accessor>>

\* httpClient.Do returns; the rest of the operation classifies the outcome.
TransportReturns(c) ==
    /\ pc[c] = "inflight"
    /\ \E o \in Outcomes :
        /\ resp' = [resp EXCEPT ![c] = o.resp]
        /\ opErr' = [opErr EXCEPT ![c] = operation(conditioner, o)]
        /\ hist' = [hist EXCEPT ![c] = Append(@, o)]
        /\ errCalls' = [errCalls EXCEPT ![c] = @ + operationCalls(o).categorize]
        /\ condCalls' = [condCalls EXCEPT ![c] = @ + operationCalls(o).conditioner]
    /\ pc' = [pc EXCEPT ![c] = "retry"]
    /\ UNCHANGED <<client, sent, backoffer, attempts, err, ret, invocations,
                   consulted, granted, accessor>>

\* backoff.Retry after the operation returned nil: it returns nil.
RetrySucceeds(c) ==
    /\ pc[c] = "retry"
    /\ opErr[c] = Nil
    /\ err' = [err EXCEPT ![c] = Nil]
    /\ pc' = [pc EXCEPT ![c] = "attach"]
    /\ UNCHANGED <<client, sent, backoffer, attempts, resp, opErr, ret, hist,
                   invocations, consulted, granted, condCalls, errCalls, accessor>>

\* backoff.Retry after a *PermanentError: it returns the wrapped error.
RetryPermanent(c) ==
    /\ pc[c] = "retry"
    /\ opErr[c] # Nil
    /\ Deref(opErr[c]).permanent
    /\ err' = [err EXCEPT ![c] = Ptr(Deref(opErr[c]).err)]
    /\ pc' = [pc EXCEPT ![c] = "attach"]
    /\ UNCHANGED <<client, sent, backoffer, attempts, resp, opErr, ret, hist,
                   invocations, consulted, granted, condCalls, errCalls, accessor>>

\* The retry loop with a cap of its own: after the second attempt it gives
\* up without asking the BackOff.
RetryBackOffCapped(c) ==
    /\ pc[c] = "retry"
    /\ opErr[c] # Nil
    /\ ~Deref(opErr[c]).permanent
    /\ IF attempts[c] >= 2
       THEN /\ err' = [err EXCEPT ![c] = Ptr(Deref(opErr[c]).err)]
            /\ pc' = [pc EXCEPT ![c] = "attach"]
            /\ UNCHANGED <<backoffer, consulted, granted>>
       ELSE LET next == NextBackOff(backoffer)
            IN  /\ backoffer' = next.b
                /\ consulted' = [consulted EXCEPT ![c] = @ + 1]
                /\ IF next.stop
                   THEN /\ err' = [err EXCEPT ![c] = Ptr(Deref(opErr[c]).err)]
                        /\ pc' = [pc EXCEPT ![c] = "attach"]
                        /\ UNCHANGED granted
                   ELSE /\ granted' = [granted EXCEPT ![c] = @ + 1]
                        /\ pc' = [pc EXCEPT ![c] = "sleep"]
                        /\ UNCHANGED err
    /\ UNCHANGED <<client, sent, attempts, resp, opErr, ret, hist, invocations,
                   condCalls, errCalls, accessor>>

\* The retry loop handing back, on Stop, the error of the first attempt
\* instead of the one the operation just returned.
RetryBackOffFirstError(c) ==
    /\ pc[c] = "retry"
    /\ opErr[c] # Nil
    /\ ~Deref(opErr[c]).permanent
    /\ LET next == NextBackOff(backoffer)
           first == operation(conditioner, hist[c][1])
       IN  /\ backoffer' = next.b
           /\ consulted' = [consulted EXCEPT ![c] = @ + 1]
           /\ IF next.stop
              THEN /\ err' = [err EXCEPT ![c] = Ptr(Deref(first).err)]
                   /\ pc' = [pc EXCEPT ![c] = "attach"]
                   /\ UNCHANGED granted
              ELSE /\ granted' = [granted EXCEPT ![c] = @ + 1]
                   /\ pc' = [pc EXCEPT ![c] = "sleep"]
                   /\ UNCHANGED err
    /\ UNCHANGED <<client, sent, attempts, resp, opErr, ret, hist, invocations,
                   condCalls, errCalls, accessor>>

\* backoff.Retry after any other error: it asks the BackOff; Stop makes it
\* return the error, a delay makes it wait.
RetryBackOff(c) ==
    /\ pc[c] = "retry"
    /\ opErr[c] # Nil
    /\ ~Deref(opErr[c]).permanent
    /\ LET next == NextBackOff(backoffer)
       IN  /\ backoffer' = next.b
           /\ consulted' = [consulted EXCEPT ![c] = @ + 1]
           /\ IF next.stop
              THEN /\ err' = [err EXCEPT ![c] = Ptr(Deref(opErr[c]).err)]
                   /\ pc' = [pc EXCEPT ![c] = "attach"]
                   /\ UNCHANGED granted
              ELSE /\ granted' = [granted EXCEPT ![c] = @ + 1]
                   /\ pc' = [pc EXCEPT ![c] = "sleep"]
                   /\ UNCHANGED err
    /\ UNCHANGED <<client, sent, attempts, resp, opErr, ret, hist, invocations,
                   condCalls, errCalls, accessor>>

\* The timer of backoff.Retry fires: the loop runs the operation again.
Wake(c) ==
    /\ pc[c] = "sleep"
    /\ pc' = [pc EXCEPT ![c] = "operation"]
    /\ UNCHANGED <<client, sent, backoffer, attempts, resp, opErr, err, ret, hist,
                   invocations, consulted, granted, condCalls, errCalls, accessor>>

\* addAttemptsToRequest(resp, attempts); return resp, err
Return(c) ==
    /\ pc[c] = "attach"
    /\ LET tagged == addAttemptsToRequest(resp[c], attempts[c])
       IN  IF tagged.panic
           THEN /\ pc' = [pc EXCEPT ![c] = "panicked"]
                /\ UNCHANGED <<resp, ret>>
           ELSE /\ resp' = [resp EXCEPT ![c] = Ptr(tagged.value)]
                /\ ret' = [ret EXCEPT ![c] = Ptr([resp |-> Ptr(tagged.value), err |-> err[c]])]
                /\ pc' = [pc EXCEPT ![c] = "done"]
    /\ UNCHANGED <<client, sent, backoffer, attempts, opErr, err, hist, invocations,
                   consulted, granted, condCalls, errCalls, accessor>>

\* The responses a caller can hold: nil, one no call went through, and the
\* ones Do returned.
Held ==
    {Nil, Ptr(NewResponse(200))} \cup {Deref(ret[c]).resp : c \in {d \in Calls : ret[d] # NoReturn}}

\* A caller evaluates Attempts(r).
CallAttempts ==
    /\ \E r \in Held : accessor' = Ptr([arg |-> r, result |-> Attempts(r)])
    /\ UNCHANGED <<client, sent, backoffer, pc, attempts, resp, opErr, err, ret, hist,
                   invocations, consulted, granted, condCalls, errCalls>>

Next ==
    \/ \E c \in Calls : Do(c)
    \/ \E c \in Calls : Invoke(c)
    \/ \E c \in Calls : TransportReturns(c)
    \/ \E c \in Calls : RetrySucceeds(c)
    \/ \E c \in Calls : RetryPermanent(c)
    \/ \E c \in Calls : RetryBackOff(c)
    \/ \E c \in Calls : Wake(c)
    \/ \E c \in Calls : Return(c)
    \/ CallAttempts

Spec == Init /\ [][Next]_vars

SpecConc == InitConc /\ [][Next]_vars

\* A step of the goroutine that runs call c once Do was entered.
CallStep(c) ==
    \/ Invoke(c)
    \/ TransportReturns(c)
    \/ RetrySucceeds(c)
    \/ RetryPermanent(c)
    \/ RetryBackOff(c)
    \/ Wake(c)
    \/ Return(c)

\* The goroutine of a call keeps running, the transport always returns and
\* the timer of backoff.Retry fires; when a caller enters Do is up to it.
SpecLive == Init /\ [][Next]_vars /\ \A c \in Calls : WF_vars(CallStep(c))

(* ------------------------- history vocabulary -------------------------- *)

Attempted(c) == hist[c] # <<>>

\* The outcome of the most recent transport invocation that returned.
LastOutcome(c) == hist[c][Len(hist[c])]

\* What the Conditioner of the client says of the response of outcome o.
Verdict(o) == Conditioner(conditioner, Deref(o.resp))

IsAccept(o) == o.err = Nil /\ Verdict(o) = OK

IsRetryResponse(o) == o.err = Nil /\ Verdict(o).shouldRetry /\ Verdict(o).err # Nil

IsPermanentResponse(o) == o.err = Nil /\ ~Verdict(o).shouldRetry /\ Verdict(o).err # Nil

\* The texts of TransportErrors and RedirectError that contain "EOF".
EOFTexts == {<<"E", "O", "F">>, <<"x", "E", "O", "F", "x">>}

\* The retry policy for transport errors, as the specification words it.
RetryPolicy(e) ==
    \/ e.text \in EOFTexts
    \/ e.net /\ e.timeout
    \/ e.net /\ e.temporary

IsRetriableFailure(o) == o.err # Nil /\ RetryPolicy(Deref(o.err))

IsPermanentFailure(o) == o.err # Nil /\ ~RetryPolicy(Deref(o.err))

\* The error the most recent attempt ended with (nil if it was accepted).
LastAttemptError(c) ==
    IF LastOutcome(c).err # Nil THEN LastOutcome(c).err ELSE Verdict(LastOutcome(c)).err

\* The response of outcome o with the attempt count n attached.
Tagged(o, n) == Ptr([StatusCode |-> Deref(o.resp).StatusCode, Request |-> [ctx |-> n]])

Returned(c) == Deref(ret[c])

Terminal == {"attach", "done", "panicked"}

(* -------------------------------- claims ------------------------------- *)

\* C1: whenever the most recent transport outcome of a call is a response
\* the classifier accepts, the call goes on to return without a further
\* attempt, and what it returns is a nil error and that response, on which
\* Attempts reads the number of transport invocations the call made.
C1_AcceptEndsCall ==
    \A c \in Calls :
        (Attempted(c) /\ IsAccept(LastOutcome(c))) =>
            /\ pc[c] \in {"retry", "attach", "done"}
            /\ invocations[c] = Len(hist[c])
            /\ pc[c] = "done" =>
                /\ Returned(c).err = Nil
                /\ Returned(c).resp = Tagged(LastOutcome(c), invocations[c])
                /\ Attempts(Returned(c).resp) = Value(invocations[c])

\* C1 witness: a timeout on the first invocation, a 200 on the second, and
\* the call returned.
C1_Witness ==
    \E c \in Calls :
        /\ pc[c] = "done"
        /\ Len(hist[c]) = 2
        /\ hist[c][1].err # Nil /\ Deref(hist[c][1].err).timeout
        /\ IsAccept(hist[c][2]) /\ Deref(hist[c][2].resp).StatusCode = 200
        /\ Attempts(Returned(c).resp) = Value(2)

\* C2: when the classifier judges the first response Permanent, that
\* invocation stays the only one, NextBackOff is never called, and the call
\* returns the classifier's diagnostic with the rejected response, tagged
\* with attempt count 1.
C2_PermanentResponseEndsCall ==
    \A c \in Calls :
        (Attempted(c) /\ IsPermanentResponse(hist[c][1])) =>
            /\ Len(hist[c]) = 1
            /\ invocations[c] = 1
            /\ consulted[c] = 0
            /\ pc[c] \in {"retry", "attach", "done"}
            /\ pc[c] = "done" =>
                /\ Returned(c).err = Verdict(hist[c][1]).err
                /\ Returned(c).resp = Tagged(hist[c][1], 1)
                /\ Attempts(Returned(c).resp) = Value(1)

\* C2 witness: a 404 judged permanent, with a scheduler that would still
\* have granted a delay, and the call returned.
C2_Witness ==
    \E c \in Calls :
        /\ pc[c] = "done"
        /\ IsPermanentResponse(hist[c][1])
        /\ Deref(hist[c][1].resp).StatusCode = 404
        /\ backoffer.numTries < backoffer.maxTries

\* C3: when every attempt got a response judged Retry and the call has left
\* the retry loop after N granted delays, it made N+1 transport invocations
\* and N+1 scheduler consultations, its attempt count is N+1, and it
\* returns the diagnostic of the last classification with the last response.
C3_ExhaustedRetries ==
    \A c \in Calls :
        (/\ pc[c] \in Terminal
         /\ \A i \in 1..Len(hist[c]) : IsRetryResponse(hist[c][i])) =>
            /\ pc[c] # "panicked"
            /\ invocations[c] = granted[c] + 1
            /\ consulted[c] = granted[c] + 1
            /\ attempts[c] = granted[c] + 1
            /\ err[c] = Verdict(LastOutcome(c)).err
            /\ pc[c] = "done" =>
                /\ Returned(c).err = Verdict(LastOutcome(c)).err
                /\ Returned(c).resp = Tagged(LastOutcome(c), granted[c] + 1)
                /\ Attempts(Returned(c).resp) = Value(granted[c] + 1)

\* C3 witness: two delays granted, three responses judged Retry, returned.
C3_Witness ==
    \E c \in Calls :
        /\ pc[c] = "done"
        /\ granted[c] = 2
        /\ Len(hist[c]) = 3
        /\ \A i \in 1..3 : IsRetryResponse(hist[c][i])

\* C4: Attempts(nil) evaluates to 0 and does not panic.
C4_AttemptsOfNil ==
    (accessor # <<>> /\ Deref(accessor).arg = Nil) => Deref(accessor).result = Value(0)

\* C5: when the most recent transport invocation failed with an error the
\* policy judges Permanent, the call makes no further invocation, does not
\* consult the scheduler for it, and returns that error (no panic), also
\* when the response is nil.
C5_PermanentFailureReturned ==
    \A c \in Calls :
        (Attempted(c) /\ IsPermanentFailure(LastOutcome(c))) =>
            /\ pc[c] \in {"retry", "attach", "done"}
            /\ consulted[c] = granted[c]
            /\ pc[c] = "done" => Returned(c).err = LastOutcome(c).err

\* C6: a delay is granted only after a retriable failure or a Retry
\* response, and when the scheduler stops the call after a retriable
\* transport failure, the call returns that last transport error (no
\* panic), also when no attempt obtained a response.
C6_ExhaustedFailureReturned ==
    \A c \in Calls :
        /\ pc[c] = "sleep" =>
            (IsRetriableFailure(LastOutcome(c)) \/ IsRetryResponse(LastOutcome(c)))
        /\ (pc[c] \in Terminal /\ IsRetriableFailure(LastOutcome(c))) =>
            /\ pc[c] # "panicked"
            /\ pc[c] = "done" => Returned(c).err = LastOutcome(c).err

\* C7: the delays a call is granted do not depend on other calls: a call
\* the scheduler stopped was granted exactly the delays the policy allows
\* one call.
C7_GrantsIndependent ==
    \A c \in Calls :
        (pc[c] \in Terminal /\ opErr[c] # Nil /\ ~Deref(opErr[c]).permanent) =>
            granted[c] = backoffer.maxTries

\* C8: a failed transport invocation is classified Retry exactly when the
\* error text contains "EOF", or it is a network error with the timeout
\* flag, or a network error with the temporary flag; otherwise Permanent;
\* the classified error is the transport error itself.
C8_ErrorClassifier ==
    \A c \in Calls :
        (pc[c] = "retry" /\ LastOutcome(c).err # Nil) =>
            /\ opErr[c] # Nil
            /\ Deref(opErr[c]).err = Deref(LastOutcome(c).err)
            /\ Deref(opErr[c]).permanent <=> ~RetryPolicy(Deref(LastOutcome(c).err))

\* C8 witness: a network error with only the temporary flag was classified
\* Retry.
C8_Witness ==
    \E c \in Calls :
        /\ pc[c] = "retry"
        /\ LastOutcome(c).err # Nil
        /\ Deref(LastOutcome(c).err).temporary
        /\ ~Deref(LastOutcome(c).err).timeout
        /\ ~Deref(opErr[c]).permanent

StatusOf(o) == Deref(o.resp).StatusCode

\* C9: with the default Conditioner a response is Retry exactly for
\* 500 <= code < 600, Accept exactly for 200 <= code < 300 and Permanent for
\* every other code; a call that saw 500 then 200 returns status 200, nil
\* error and 2 attempts; a call that saw 404 makes one attempt and returns
\* a non-nil error with the 404 response.
C9_Default5XX ==
    conditioner = "default5XX" =>
        \A c \in Calls :
            /\ (pc[c] = "retry" /\ LastOutcome(c).err = Nil) =>
                LET s == StatusOf(LastOutcome(c))
                IN  /\ (opErr[c] # Nil /\ ~Deref(opErr[c]).permanent) <=> s \in 500..599
                    /\ opErr[c] = Nil <=> s \in 200..299
                    /\ (opErr[c] # Nil /\ Deref(opErr[c]).permanent) <=> s \notin (200..299) \cup (500..599)
            /\ (Len(hist[c]) >= 2 /\ hist[c][1].err = Nil /\ hist[c][2].err = Nil
                /\ StatusOf(hist[c][1]) = 500 /\ StatusOf(hist[c][2]) = 200) =>
                /\ Len(hist[c]) = 2
                /\ pc[c] \in {"retry", "attach", "done"}
                /\ pc[c] = "done" =>
                    /\ Returned(c).err = Nil
                    /\ Deref(Returned(c).resp).StatusCode = 200
                    /\ Attempts(Returned(c).resp) = Value(2)
                    /\ invocations[c] = 2
            /\ (Attempted(c) /\ hist[c][1].err = Nil /\ StatusOf(hist[c][1]) = 404) =>
                /\ Len(hist[c]) = 1
                /\ pc[c] \in {"retry", "attach", "done"}
                /\ pc[c] = "done" =>
                    /\ Returned(c).err # Nil
                    /\ Deref(Returned(c).resp).StatusCode = 404
                    /\ Attempts(Returned(c).resp) = Value(1)

\* C9 witness: the default client saw 500 then 200 and returned.
C9_Witness ==
    \E c \in Calls :
        /\ conditioner = "default5XX"
        /\ pc[c] = "done"
        /\ Len(hist[c]) = 2
        /\ hist[c][1].err = Nil /\ StatusOf(hist[c][1]) = 500
        /\ hist[c][2].err = Nil /\ StatusOf(hist[c][2]) = 200

\* C10: the error backoff.Retry hands back, and the error Do returns, is
\* the error of the most recent attempt: its transport error, or the
\* diagnostic of its classification.
C10_LastAttemptDecides ==
    \A c \in Calls :
        /\ pc[c] \in Terminal => err[c] = LastAttemptError(c)
        /\ pc[c] = "done" => Returned(c).err = LastAttemptError(c)

\* C10 witness: a retriable transport error, then a response judged Retry,
\* then the scheduler stops: the call returned the diagnostic, which is not
\* the earlier transport error.
C10_Witness ==
    \E c \in Calls :
        /\ pc[c] = "done"
        /\ Len(hist[c]) = 2
        /\ IsRetriableFailure(hist[c][1])
        /\ IsRetryResponse(hist[c][2])
        /\ Returned(c).err = Verdict(hist[c][2]).err
        /\ Returned(c).err # hist[c][1].err

\* The most recent attempt was classified Retry: a retriable transport
\* failure or a response judged Retry.
IsRetry(o) == IsRetriableFailure(o) \/ IsRetryResponse(o)

\* C11: a transport invocation after the first happens only when the
\* previous attempt was classified Retry and every scheduler consultation
\* of the call so far, one per earlier attempt, granted a delay; and the
\* engine has no cap of its own: a call whose last attempt was classified
\* Retry leaves the loop only on a scheduler answer of Stop.
C11_RetriesAuthorized ==
    /\ [][\A c \in Calls :
            (invocations'[c] # invocations[c] /\ invocations[c] >= 1) =>
                /\ IsRetry(LastOutcome(c))
                /\ Len(hist[c]) = invocations[c]
                /\ granted[c] = invocations[c]
                /\ consulted[c] = granted[c]]_vars
    /\ [](\A c \in Calls :
            /\ pc[c] = "sleep" => (IsRetry(LastOutcome(c)) /\ granted[c] = invocations[c])
            /\ (pc[c] \in Terminal /\ IsRetry(LastOutcome(c))) =>
                consulted[c] = granted[c] + 1)

\* C11 witness: a third invocation is in flight after two granted delays.
C11_Witness ==
    \E c \in Calls :
        /\ pc[c] = "inflight"
        /\ invocations[c] = 3
        /\ granted[c] = 2
        /\ IsRetry(hist[c][1]) /\ IsRetry(hist[c][2])

\* The three terminal classifications of a call, read off its last attempt
\* and its last scheduler answer.
Success(c) ==
    /\ LastOutcome(c).err = Nil /\ Verdict(LastOutcome(c)).err = Nil
    /\ err[c] = Nil
    /\ consulted[c] = granted[c]

Exhausted(c) ==
    /\ IsRetry(LastOutcome(c))
    /\ err[c] # Nil
    /\ consulted[c] = granted[c] + 1

PermanentFailure(c) ==
    /\ IsPermanentFailure(LastOutcome(c)) \/ IsPermanentResponse(LastOutcome(c))
    /\ err[c] # Nil
    /\ consulted[c] = granted[c]

\* C12: with a scheduler that stops after finitely many delays and a
\* transport that always returns, a call that entered Do eventually leaves
\* it; when backoff.Retry has returned, exactly one of success, exhausted
\* retries and permanent error is the call's classification, and it does
\* not change afterwards.
C12_TerminatesWithOneOutcome ==
    /\ \A c \in Calls : (pc[c] = "operation") ~> (pc[c] \in {"done", "panicked"})
    /\ [](\A c \in Calls :
            pc[c] \in Terminal =>
                /\ Success(c) \/ Exhausted(c) \/ PermanentFailure(c)
                /\ ~(Success(c) /\ Exhausted(c))
                /\ ~(Success(c) /\ PermanentFailure(c))
                /\ ~(Exhausted(c) /\ PermanentFailure(c)))
    /\ [][\A c \in Calls :
            pc[c] \in Terminal =>
                (pc'[c] \in Terminal /\ err'[c] = err[c] /\ hist'[c] = hist[c])]_vars

\* C12 witness: a call returned after the scheduler stopped it, having been
\* granted every delay of the policy.
C12_Witness ==
    \E c \in Calls :
        /\ pc[c] = "done"
        /\ Exhausted(c)
        /\ granted[c] >= 2
        /\ granted[c] = backoffer.maxTries

\* C13: the attempt counter of a call always equals the number of
\* transport invocations the call has started; it is 0 before the first,
\* changes only by +1 in the step that invokes the transport, and no
\* classification, scheduler consultation, wait or return changes it.
C13_CounterCountsInvocations ==
    /\ [](\A c \in Calls :
            /\ attempts[c] = invocations[c]
            /\ attempts[c] = Len(sent[c])
            /\ pc[c] = "idle" => attempts[c] = 0)
    /\ [][\A c \in Calls :
            /\ attempts'[c] \in {attempts[c], attempts[c] + 1}
            /\ attempts'[c] # attempts[c] <=>
                (pc[c] = "operation" /\ pc'[c] = "inflight")]_vars

\* C13 witness: the third invocation is in flight and the counter reads 3.
C13_Witness ==
    \E c \in Calls : pc[c] = "inflight" /\ Len(sent[c]) = 3 /\ attempts[c] = 3

\* C14: when a call has reached its terminal outcome, its attempt counter
\* is at least 1 and so is the count attached to a returned response.
C14_TerminalHasAttempt ==
    \A c \in Calls :
        /\ pc[c] \in Terminal => (attempts[c] >= 1 /\ invocations[c] >= 1)
        /\ pc[c] = "done" =>
            /\ ~Attempts(Returned(c).resp).panic
            /\ Attempts(Returned(c).resp).value >= 1

\* C14 witness: a call returned an accepted response after one attempt.
C14_Witness ==
    \E c \in Calls :
        /\ pc[c] = "done"
        /\ attempts[c] = 1
        /\ Returned(c).err = Nil
        /\ Attempts(Returned(c).resp) = Value(1)

\* C15: every transport invocation of a call is handed the caller's
\* request as the caller passed it; the caller's request never changes, and
\* the attempt count sits only on the request of the returned response,
\* which is a copy.
C15_RequestUnmodified ==
    \A c \in Calls :
        /\ request[c] = CallerRequest
        /\ \A i \in 1..Len(sent[c]) : sent[c][i] = CallerRequest
        /\ pc[c] = "done" =>
            /\ Deref(Returned(c).resp).Request = WithAttempts(CallerRequest, attempts[c])
            /\ Deref(Returned(c).resp).Request # request[c]

\* C15 witness: three invocations were made and the call returned a tagged
\* response.
C15_Witness ==
    \E c \in Calls :
        /\ pc[c] = "done"
        /\ Len(sent[c]) = 3
        /\ Deref(Returned(c).resp).Request.ctx = 3
        /\ request[c].ctx = Absent

\* C16: a call that has left Do returned a response, an error or both,
\* never neither; a nil error comes with the accepted response; and a
\* response comes with a non-nil error exactly when the last attempt
\* obtained a response that the classifier rejected.
C16_TerminalSurfaces ==
    \A c \in Calls :
        pc[c] \in {"done", "panicked"} =>
            /\ pc[c] = "done"
            /\ Returned(c).resp # Nil \/ Returned(c).err # Nil
            /\ Returned(c).err = Nil =>
                /\ Returned(c).resp # Nil
                /\ LastOutcome(c).err = Nil /\ Verdict(LastOutcome(c)).err = Nil
            /\ Returned(c).err # Nil =>
                (Returned(c).resp # Nil <=>
                    (LastOutcome(c).err = Nil /\ Verdict(LastOutcome(c)).err # Nil))

\* C17: whenever the Conditioner returns a nil error for the response of
\* the most recent attempt, whatever its shouldRetry, the operation hands nil
\* to backoff.Retry, no further attempt and no scheduler consultation
\* follows, and the call returns that response with a nil error; with a
\* non-nil error it is shouldRetry that decides between Retry and Permanent.
C17_NilErrorAccepts ==
    \A c \in Calls :
        (Attempted(c) /\ pc[c] # "inflight" /\ LastOutcome(c).err = Nil) =>
            LET v == Verdict(LastOutcome(c))
            IN  /\ v.err = Nil =>
                    /\ pc[c] \in {"retry", "attach", "done"}
                    /\ opErr[c] = Nil
                    /\ consulted[c] = granted[c]
                    /\ invocations[c] = Len(hist[c])
                    /\ pc[c] \in {"attach", "done"} => err[c] = Nil
                    /\ pc[c] = "done" =>
                        /\ Returned(c).err = Nil
                        /\ Returned(c).resp = Tagged(LastOutcome(c), invocations[c])
                /\ v.err # Nil =>
                    /\ opErr[c] # Nil
                    /\ Deref(opErr[c]).permanent <=> ~v.shouldRetry

\* C17 witness: the Conditioner answered (true, nil), the scheduler would
\* have granted a delay, and the call returned with a nil error after the
\* one attempt.
C17_Witness ==
    \E c \in Calls :
        /\ pc[c] = "done"
        /\ Len(hist[c]) = 1
        /\ LastOutcome(c).err = Nil
        /\ Verdict(LastOutcome(c)) = [shouldRetry |-> TRUE, err |-> Nil]
        /\ backoffer.numTries < backoffer.maxTries
        /\ Returned(c).err = Nil

\* The attempts of call c so far whose transport invocation succeeded
\* (returned no error), and those whose invocation failed.
Succeeded(c) == {i \in 1..Len(hist[c]) : hist[c][i].err = Nil}

Failed(c) == {i \in 1..Len(hist[c]) : hist[c][i].err # Nil}

\* C18: the Conditioner has run once per succeeded invocation and
\* categorizeRequestError once per failed one, neither for the other kind;
\* the classification of an attempt is made when its invocation has
\* returned, before the next invocation and before the scheduler is
\* consulted about it.
C18_OneClassificationPerAttempt ==
    /\ [](\A c \in Calls :
            /\ condCalls[c] = Cardinality(Succeeded(c))
            /\ errCalls[c] = Cardinality(Failed(c))
            /\ condCalls[c] + errCalls[c] =
                   IF pc[c] = "inflight" THEN invocations[c] - 1 ELSE invocations[c])
    /\ [][\A c \in Calls :
            /\ consulted'[c] # consulted[c] =>
                (/\ condCalls[c] + errCalls[c] = invocations[c]
                 /\ consulted[c] = invocations[c] - 1)
            /\ (condCalls'[c] # condCalls[c] \/ errCalls'[c] # errCalls[c]) =>
                (/\ pc[c] = "inflight"
                 /\ condCalls'[c] + errCalls'[c] = condCalls[c] + errCalls[c] + 1
                 /\ consulted'[c] = consulted[c])]_vars

\* C18 witness: one failed and one succeeded invocation, one run of each
\* classifier, and the scheduler consulted once.
C18_Witness ==
    \E c \in Calls :
        /\ Len(hist[c]) = 2
        /\ hist[c][1].err # Nil /\ hist[c][2].err = Nil
        /\ condCalls[c] = 1 /\ errCalls[c] = 1
        /\ consulted[c] = 1
        /\ pc[c] = "done"

\* C19: after an attempt, the local resp is what that attempt's transport
\* invocation returned (nil if it returned none), whatever earlier attempts
\* obtained; so the response and the error Do returns are those of the last
\* attempt, and a call whose last attempt obtained no response holds none.
C19_ResponseOfLastAttempt ==
    \A c \in Calls :
        /\ pc[c] \in {"retry", "sleep", "operation", "attach", "panicked"} /\ Attempted(c) =>
            resp[c] = LastOutcome(c).resp
        /\ pc[c] = "done" =>
            /\ LastOutcome(c).resp # Nil
            /\ Returned(c).resp = Tagged(LastOutcome(c), attempts[c])
            /\ Returned(c).err = LastAttemptError(c)

\* C19 witness: a first attempt obtained a 500 response, the last attempt
\* failed at transport level and brought the redirect response; the call
\* returned that response with that error.
C19_Witness ==
    \E c \in Calls :
        /\ pc[c] = "done"
        /\ Len(hist[c]) = 2
        /\ hist[c][1].err = Nil /\ StatusOf(hist[c][1]) = 500
        /\ hist[c][2].err = Ptr(RedirectError)
        /\ Returned(c).err = Ptr(RedirectError)
        /\ Deref(Returned(c).resp).StatusCode = 300

====
